---- MODULE Spec2Model ----
(***************************************************************************)
(* Model of the AI image detector relay server (Express + Copyleaks).      *)
(* The program modelled is the variant with persistence (src/unnamed/      *)
(* part_000); with DATABASE_URL unset it behaves as src/server.js.         *)
(* Every callback of the Node event loop is one action: a handler runs to  *)
(* its next await on an outbound call (login exchange, detection call,     *)
(* database query), and the continuation after that call is the next       *)
(* action.                                                                 *)
(***************************************************************************)
EXTENDS Integers, Sequences, FiniteSets, TLC

\* ---------------------------------------------------------------- bounds
NumCalls == 2          \* POST /api/detect requests in one behaviour
MaxTicks == 1          \* clock steps in one behaviour

Calls == 1..NumCalls

\* ------------------------------------------------------ program constants
TOKEN_TTL_MS == 47 * 60 * 60 * 1000
FILE_SIZE_LIMIT == 32 * 1024 * 1024

\* the clock advances in steps of one TTL: a token is read at age 0 (fresh)
\* and at an age equal to the TTL (stale, the boundary)
TickMs == TOKEN_TTL_MS

\* ------------------------------------------------------- JavaScript values
Null == -2             \* null
Undef == -1            \* undefined
Absent == -1           \* a missing (undefined) field of an upstream payload

\* !x for a token value: null and undefined are falsy, a token string is not
Truthy(tok) == tok # Null /\ tok # Undef

\* ------------------------------------------------------- upstream answers
\* the login exchange: a 2xx answer with a token, a 2xx answer with neither
\* access_token nor token, a non-2xx answer, a network error
LoginOutcomes == {"token", "notoken", "http", "network"}

Payloads ==
    { [ai |-> 73, human |-> Absent, width |-> 640, height |-> 480] }

\* payload shapes: summary.ai and summary.human present or missing (ai also
\* present as 0), imageInfo.width and imageInfo.height present or missing
PayloadShapes ==
    [ai : {Absent, 0, 73}, human : {Absent, 27}, width : {Absent, 640},
     height : {Absent, 480}]

\* placeholder for "no payload" in answers that carry none
NoData == [ai |-> -3, human |-> -3, width |-> -3, height |-> -3]

\* the detection call: status 0 stands for "no response" (network error),
\* message "" for "no message field in the answer"; err is err.message
DetectFailures ==
    { [status |-> 401, message |-> "Unauthorized", err |-> "Request failed with status code 401", data |-> NoData],
      [status |-> 500, message |-> "Internal error", err |-> "Request failed with status code 500", data |-> NoData],
      [status |-> 0, message |-> "", err |-> "Network Error", data |-> NoData] }

DetectOutcomes ==
    { [status |-> 200, message |-> "", err |-> "", data |-> p] : p \in Payloads } \cup DetectFailures

PayloadOutcomes ==
    { [status |-> 200, message |-> "", err |-> "", data |-> p] : p \in PayloadShapes }
        \cup DetectFailures

NoOutcome == [status |-> -1, message |-> "", err |-> "", data |-> NoData]

\* the error a rejected db.query throws: it has no response property
MsgDb == "db error"
DbError == [status |-> 0, message |-> "", err |-> MsgDb, data |-> NoData]

\* axios resolves on 2xx and rejects otherwise
IsSuccess(o) == o.status >= 200 /\ o.status < 300

\* any 4xx or 5xx answer taken for a rejected token
IsAuthRejectionAnyStatus(o) == o.status >= 400

\* err.response?.status === 401
IsAuthRejection(o) == o.status = 401

\* err.response?.data?.message || err.message
ErrMessage(o) == IF o.message # "" THEN o.message ELSE o.err

\* err.response?.status || 500
ErrStatus(o) == IF o.status # 0 THEN o.status ELSE 500

\* ------------------------------------------------------------- responses
NoResp == [status |-> 0, json |-> FALSE, error |-> "", data |-> NoData]
JsonOk(d) == [status |-> 200, json |-> TRUE, error |-> "", data |-> d]
JsonErr(s, m) == [status |-> s, json |-> TRUE, error |-> m, data |-> NoData]
\* the answer of Express's default error handler: an HTML page
HtmlErr(s) == [status |-> s, json |-> FALSE, error |-> "", data |-> NoData]

MsgNotAuthenticated == "Not authenticated. Set COPYLEAKS_EMAIL and COPYLEAKS_API_KEY environment variables."
MsgNoFile == "No image file provided."
MsgReauthFailed == "Re-authentication failed."

VARIABLES
    configured,      \* COPYLEAKS_EMAIL and COPYLEAKS_API_KEY are both set
    db,              \* DATABASE_URL is set (a Pool exists)
    storedToken,     \* Null, Undef or a token (1, 2, ...)
    tokenFetchedAt,  \* Null or a time in ms
    now,             \* Date.now()
    scans,           \* the scans table: the rows inserted, in order
    startPc,         \* position of the app.listen callback
    nextFire,        \* time of the next setInterval expiry
    timerPc,         \* position of the authenticate run started by the timer
    calls,           \* the detect requests
    histResp,        \* last answer of GET /api/history
    statusResp,      \* last answer of GET /api/status
    variant,         \* which source file runs: "part_000" or "server.js"
    lastWrite        \* history: the pair written by the last authenticate
                     \* run that reached its assignments

vars == << configured, db, storedToken, tokenFetchedAt, now, scans,
           startPc, nextFire, timerPc, calls, histResp, statusResp, variant,
           lastWrite >>

\* ------------------------------------------------------------ authenticate
\* if (!email || !apiKey) return;  otherwise the login exchange is awaited
AuthHasConfig == configured

\* the token of a 2xx login answer that carries one: an opaque string that
\* differs from the token the store holds
IssuedToken(held) == IF held = 1 THEN 2 ELSE 1

\* res.data.access_token || res.data.token, for a 2xx login answer
LoginToken(o, held) == IF o = "token" THEN IssuedToken(held) ELSE Undef

\* axios resolves the login exchange (2xx) or rejects it
LoginResolves(o) == o \in {"token", "notoken"}

\* a continuation that assigns the token and leaves fetchedAt to a later step
AuthSettleTokenOnly(o) ==
    IF LoginResolves(o)
    THEN /\ storedToken' = LoginToken(o, storedToken)
         /\ UNCHANGED tokenFetchedAt
    ELSE UNCHANGED << storedToken, tokenFetchedAt >>

\* the continuation of authenticate() after the awaited login exchange:
\* the two assignments on a 2xx answer, the catch block otherwise
AuthSettle(o) ==
    IF LoginResolves(o)
    THEN /\ storedToken' = LoginToken(o, storedToken)
         /\ tokenFetchedAt' = now
    ELSE UNCHANGED << storedToken, tokenFetchedAt >>

\* history: what the two assignments of a run write, if it reaches them
WrittenPair(o) ==
    IF LoginResolves(o) THEN << LoginToken(o, storedToken), now >> ELSE lastWrite

\* the condition with the boundary counted as fresh
IsStaleStrict(tok, fetchedAt, t) == ~Truthy(tok) \/ t - fetchedAt > TOKEN_TTL_MS

\* the condition of refreshIfNeeded
IsStale(tok, fetchedAt, t) == ~Truthy(tok) \/ t - fetchedAt >= TOKEN_TTL_MS

\* ---------------------------------------------------------------- saveScan
\* saveScan without its guard
SaveScanNeverNoop(pool) == FALSE

\* if (!db) return;
SaveScanIsNoop(pool) == ~pool

\* x ?? d
Coalesce(x, d) == IF x = Absent THEN d ELSE x

\* a missing number stored as zero
OrZero(x) == IF x = Absent THEN 0 ELSE x

\* x || null, for a number
OrNull(x) == IF x = Absent \/ x = 0 THEN Null ELSE x

\* the row saveScan inserts for an upstream payload
ScanRow(r, data) ==
    LET aiPct == Coalesce(data.ai, 0)
        humanPct == Coalesce(data.human, 100 - aiPct)
    IN [scanId |-> r.scanId, aiPct |-> aiPct, humanPct |-> humanPct,
        width |-> OrNull(data.width), height |-> OrNull(data.height),
        sandbox |-> r.sandbox]

\* ------------------------------------------------------- POST /api/detect
\* crypto.randomUUID(): an identifier no other request gets
RandomUUID(id) == id

\* req.file.originalname
ORIGINAL_NAME == "image.png"

\* the fixed model identifier
MODEL_ID == "ai-image-1-ultra"

\* history: a detection request as sent: the scanId of the URL, the fields
\* appended to the FormData object, which object it is, and whether an
\* earlier request has already streamed that object
NoSent == [scanId |-> 0, image |-> 0, filename |-> "", sandbox |-> FALSE,
           model |-> "", form |-> "none", consumed |-> FALSE]

Sent(r, sb, formName, used) ==
    [scanId |-> r.scanId, image |-> r.size, filename |-> ORIGINAL_NAME,
     sandbox |-> sb, model |-> MODEL_ID, form |-> formName, consumed |-> used]

\* the retry builds retryForm (part_000); server.js calls form.set only if
\* it exists, which it does not in form-data, and posts form again
RetryRebuildsForm(v) == v = "part_000"

NewCall(c) ==
    [id |-> c, pc |-> "idle", size |-> 0, hasFile |-> FALSE, sandbox |-> FALSE, scanId |-> 0,
     credAtStart |-> "none", credAfterRefresh |-> "none", credAfterReauth |-> "none",
     auths |-> 0, reauths |-> 0, logins |-> 0, attempts |-> 0, saves |-> 0,
     refreshRes |-> "none", reauthRes |-> "none", saveRes |-> "none",
     out1 |-> NoOutcome, out2 |-> NoOutcome,
     stale1 |-> FALSE, resp |-> NoResp, nresp |-> 0,
     sent1 |-> NoSent, sent2 |-> NoSent]

\* res.status(..).json(..) / res.json(..), followed by the handler's return
Respond(r, answer) == [r EXCEPT !.pc = "done", !.resp = answer, !.nresp = @ + 1]

\* multer's limits.fileSize: a larger file makes upload.single fail
UploadTooLarge(size) == size > FILE_SIZE_LIMIT

\* the guards without the test of req.file
PreCheckNoFileTest(tok, hasFile) ==
    IF ~Truthy(tok) THEN "unauthenticated" ELSE "go"

\* the guards with storedToken === null in place of !storedToken
PreCheckNullOnly(tok, hasFile) ==
    IF tok = Null THEN "unauthenticated"
    ELSE IF ~hasFile THEN "nofile"
    ELSE "go"

\* the two guards at the top of the handler, in the order of the code
PreCheck(tok, hasFile) ==
    IF ~Truthy(tok) THEN "unauthenticated"
    ELSE IF ~hasFile THEN "nofile"
    ELSE "go"

\* the handler from the end of refreshIfNeeded to the first awaited
\* detection call
AfterRefresh(r0, tok, fetchedAt, sb) ==
    LET r == [r0 EXCEPT !.credAfterRefresh = IF Truthy(tok) THEN "yes" ELSE "no"]
        chk == PreCheck(tok, r.hasFile)
    IN IF chk = "unauthenticated" THEN Respond(r, JsonErr(401, MsgNotAuthenticated))
       ELSE IF chk = "nofile" THEN Respond(r, JsonErr(400, MsgNoFile))
       ELSE [r EXCEPT !.pc = "attempt1", !.scanId = RandomUUID(r.id), !.sandbox = sb, !.attempts = @ + 1,
                      !.stale1 = (now - fetchedAt >= TOKEN_TTL_MS),
                      !.sent1 = Sent([r EXCEPT !.scanId = RandomUUID(r.id)], sb, "form", FALSE)]

\* if (!storedToken) return 401; otherwise the retry is sent
ReauthPasses(tok) == Truthy(tok)

\* the 401 branch with the answer of the failed re-authentication not
\* followed by a return
AfterReauthNoReturn(r0, tok) ==
    LET r == [r0 EXCEPT !.credAfterReauth = IF Truthy(tok) THEN "yes" ELSE "no"]
        answered == IF ~ReauthPasses(tok)
                    THEN [r EXCEPT !.resp = JsonErr(401, MsgReauthFailed), !.nresp = @ + 1]
                    ELSE r
    IN [answered EXCEPT !.pc = "attempt2", !.attempts = @ + 1,
                        !.sent2 = Sent(r, r.sandbox, "retryForm", FALSE)]

\* the 401 branch from the end of authenticate() to the awaited retry
AfterReauth(r0, tok) ==
    LET r == [r0 EXCEPT !.credAfterReauth = IF Truthy(tok) THEN "yes" ELSE "no"]
    IN IF ~ReauthPasses(tok) THEN Respond(r, JsonErr(401, MsgReauthFailed))
       ELSE [r EXCEPT !.pc = "attempt2", !.attempts = @ + 1,
                      !.sent2 = IF RetryRebuildsForm(variant)
                                THEN Sent(r, r.sandbox, "retryForm", FALSE)
                                ELSE Sent(r, r.sandbox, "form", TRUE)]

\* saveScan(..) is called: a no-op without a pool, an awaited INSERT with one
CallSaveScan(r, waitPc, data) ==
    IF SaveScanIsNoop(db)
    THEN Respond([r EXCEPT !.saves = @ + 1, !.saveRes = "noop"], JsonOk(data))
    ELSE [r EXCEPT !.saves = @ + 1, !.pc = waitPc]

\* the outer catch block, for an error that is not a 401 answer
OuterCatch(r, e) == Respond(r, JsonErr(ErrStatus(e), ErrMessage(e)))

\* the inner catch block (retryErr)
InnerCatch(r, e) == Respond(r, JsonErr(ErrStatus(e), ErrMessage(e)))

Sizes == {0, 10 * 1024, FILE_SIZE_LIMIT + 1}

\* a request arrives: upload.single('image'), then the handler up to its
\* first await that leaves the process
DetectStart(c, size, sb) ==
    /\ calls[c].pc = "idle"
    \* requests are accepted once the server listens
    /\ startPc # "boot"
    \* requests are interchangeable: they are numbered in order of arrival
    /\ \A d \in Calls : d < c => calls[d].pc # "idle"
    /\ LET r == [calls[c] EXCEPT !.size = size,
                     !.hasFile = (size > 0 /\ ~UploadTooLarge(size)),
                     !.credAtStart =
                         IF UploadTooLarge(size) THEN "none"
                         ELSE IF ~Truthy(storedToken) THEN "absent"
                         ELSE IF now - tokenFetchedAt >= TOKEN_TTL_MS THEN "aged"
                         ELSE "fresh"]
       IN calls' = [calls EXCEPT ![c] =
            IF UploadTooLarge(size) THEN Respond(r, HtmlErr(500))
            ELSE IF IsStale(storedToken, tokenFetchedAt, now)
                 THEN IF AuthHasConfig
                      THEN [r EXCEPT !.pc = "refresh", !.auths = @ + 1, !.logins = @ + 1]
                      ELSE AfterRefresh([r EXCEPT !.auths = @ + 1, !.refreshRes = "fail"],
                                        storedToken, tokenFetchedAt, sb)
                 ELSE AfterRefresh(r, storedToken, tokenFetchedAt, sb)]
    /\ UNCHANGED << configured, db, storedToken, tokenFetchedAt, now, scans,
                    startPc, nextFire, timerPc, histResp, statusResp, variant,
                    lastWrite >>

\* the login exchange of refreshIfNeeded returns
RefreshReturn(c, o, sb) ==
    /\ calls[c].pc = "refresh"
    /\ AuthSettle(o)
    /\ lastWrite' = WrittenPair(o)
    /\ calls' = [calls EXCEPT ![c] =
            AfterRefresh([@ EXCEPT !.refreshRes = IF LoginResolves(o) THEN "ok" ELSE "fail"],
                         storedToken', tokenFetchedAt', sb)]
    /\ UNCHANGED << configured, db, now, scans, startPc, nextFire, timerPc, histResp, statusResp, variant >>

\* the first detection call returns
Attempt1Return(c, o) ==
    /\ calls[c].pc = "attempt1"
    /\ LET r == [calls[c] EXCEPT !.out1 = o]
       IN calls' = [calls EXCEPT ![c] =
            IF IsSuccess(o) THEN CallSaveScan(r, "save1", o.data)
            ELSE IF IsAuthRejection(o)
                 THEN IF AuthHasConfig
                      THEN [r EXCEPT !.pc = "reauth", !.auths = @ + 1, !.reauths = @ + 1,
                                     !.logins = @ + 1]
                      ELSE AfterReauth([r EXCEPT !.auths = @ + 1, !.reauths = @ + 1,
                                                 !.reauthRes = "fail"], storedToken)
                 ELSE OuterCatch(r, o)]
    /\ UNCHANGED << configured, db, storedToken, tokenFetchedAt, now, scans,
                    startPc, nextFire, timerPc, histResp, statusResp, variant,
                    lastWrite >>

\* the INSERT of the first-attempt path returns
Save1Return(c, ok) ==
    /\ calls[c].pc = "save1"
    /\ IF ok
       THEN /\ scans' = Append(scans, ScanRow(calls[c], calls[c].out1.data))
            /\ calls' = [calls EXCEPT ![c] =
                    Respond([@ EXCEPT !.saveRes = "ok"], JsonOk(@.out1.data))]
       ELSE /\ scans' = scans
            /\ calls' = [calls EXCEPT ![c] =
                    LET r == [@ EXCEPT !.saveRes = "fail"]
                    IN IF IsAuthRejection(DbError)
                       THEN [r EXCEPT !.pc = "reauth", !.auths = @ + 1, !.reauths = @ + 1,
                                      !.logins = @ + 1]
                       ELSE OuterCatch(r, DbError)]
    /\ UNCHANGED << configured, db, storedToken, tokenFetchedAt, now,
                    startPc, nextFire, timerPc, histResp, statusResp, variant,
                    lastWrite >>

\* the login exchange of the re-authentication returns
ReauthReturn(c, o) ==
    /\ calls[c].pc = "reauth"
    /\ AuthSettle(o)
    /\ lastWrite' = WrittenPair(o)
    /\ calls' = [calls EXCEPT ![c] =
            AfterReauth([@ EXCEPT !.reauthRes = IF LoginResolves(o) THEN "ok" ELSE "fail"],
                        storedToken')]
    /\ UNCHANGED << configured, db, now, scans, startPc, nextFire, timerPc,
                    histResp, statusResp, variant >>

\* the retried detection call returns
Attempt2Return(c, o) ==
    /\ calls[c].pc = "attempt2"
    /\ LET r == [calls[c] EXCEPT !.out2 = o]
       IN calls' = [calls EXCEPT ![c] =
            IF IsSuccess(o) THEN CallSaveScan(r, "save2", o.data)
            ELSE InnerCatch(r, o)]
    /\ UNCHANGED << configured, db, storedToken, tokenFetchedAt, now, scans,
                    startPc, nextFire, timerPc, histResp, statusResp, variant,
                    lastWrite >>

\* the INSERT of the retry path returns
Save2Return(c, ok) ==
    /\ calls[c].pc = "save2"
    /\ IF ok
       THEN /\ scans' = Append(scans, ScanRow(calls[c], calls[c].out2.data))
            /\ calls' = [calls EXCEPT ![c] =
                    Respond([@ EXCEPT !.saveRes = "ok"], JsonOk(@.out2.data))]
       ELSE /\ scans' = scans
            /\ calls' = [calls EXCEPT ![c] =
                    InnerCatch([@ EXCEPT !.saveRes = "fail"], DbError)]
    /\ UNCHANGED << configured, db, storedToken, tokenFetchedAt, now,
                    startPc, nextFire, timerPc, histResp, statusResp, variant,
                    lastWrite >>

\* ------------------------------------------------------ GET /api/history
RECURSIVE Reverse(_)
Reverse(s) == IF s = << >> THEN << >> ELSE Append(Reverse(Tail(s)), Head(s))

HISTORY_LIMIT == 100

\* ORDER BY created_at DESC LIMIT 100
HistoryRows(table) ==
    LET d == Reverse(table)
    IN IF Len(d) <= HISTORY_LIMIT THEN d ELSE SubSeq(d, 1, HISTORY_LIMIT)

NoHist == [status |-> 0, rows |-> << >>, error |-> ""]

GetHistory(ok) ==
    /\ startPc # "boot"
    /\ histResp' =
         IF ~db THEN [status |-> 200, rows |-> << >>, error |-> ""]
         ELSE IF ok THEN [status |-> 200, rows |-> HistoryRows(scans), error |-> ""]
         ELSE [status |-> 500, rows |-> << >>, error |-> MsgDb]
    /\ histResp' # histResp
    /\ UNCHANGED << configured, db, storedToken, tokenFetchedAt, now, scans,
                    startPc, nextFire, timerPc, calls, statusResp, variant,
                    lastWrite >>

\* ------------------------------------------------------- GET /api/status
\* held is history, not part of the body: the token in the store when the
\* answer was given
NoStatus == [status |-> 0, authenticated |-> FALSE, configured |-> FALSE, held |-> Null]

\* Boolean(process.env.COPYLEAKS_EMAIL && process.env.COPYLEAKS_API_KEY)
StatusConfigured == configured

\* storedToken !== null
StatusAuthenticated(tok) == tok # Null

GetStatus ==
    /\ startPc # "boot"
    /\ statusResp' = [status |-> 200, authenticated |-> StatusAuthenticated(storedToken),
                      configured |-> StatusConfigured, held |-> storedToken]
    /\ statusResp' # statusResp
    /\ UNCHANGED << configured, db, storedToken, tokenFetchedAt, now, scans,
                    startPc, nextFire, timerPc, calls, histResp, variant, lastWrite >>

\* ------------------------------------------------- app.listen callback
\* the callback up to its first awaited outbound call
StartListen ==
    /\ startPc = "boot"
    /\ startPc' = IF db THEN "initDb"
                  ELSE IF AuthHasConfig THEN "auth"
                  ELSE "scheduled"
    /\ nextFire' = IF startPc' = "scheduled" THEN now + TOKEN_TTL_MS ELSE nextFire
    /\ UNCHANGED << configured, db, storedToken, tokenFetchedAt, now, scans,
                    timerPc, calls, histResp, statusResp, variant,
                    lastWrite >>

\* CREATE TABLE returns; a rejection leaves the callback (nothing catches
\* it): neither authenticate() nor setInterval is reached
InitDbReturn(ok) ==
    /\ startPc = "initDb"
    /\ startPc' = IF ~ok THEN "failed"
                  ELSE IF AuthHasConfig THEN "auth"
                  ELSE "scheduled"
    /\ nextFire' = IF startPc' = "scheduled" THEN now + TOKEN_TTL_MS ELSE nextFire
    /\ UNCHANGED << configured, db, storedToken, tokenFetchedAt, now, scans,
                    timerPc, calls, histResp, statusResp, variant,
                    lastWrite >>

\* the startup login exchange returns; setInterval follows
StartAuthReturn(o) ==
    /\ startPc = "auth"
    /\ AuthSettle(o)
    /\ lastWrite' = WrittenPair(o)
    /\ startPc' = "scheduled"
    /\ nextFire' = now + TOKEN_TTL_MS
    /\ UNCHANGED << configured, db, now, scans, timerPc, calls, histResp, statusResp, variant >>

\* the interval expires: authenticate() is called (a login exchange lasts
\* less than the interval, so the previous periodic run has returned)
TimerFire ==
    /\ startPc = "scheduled"
    /\ timerPc = "idle"
    /\ now >= nextFire
    /\ nextFire' = nextFire + TOKEN_TTL_MS
    /\ timerPc' = IF AuthHasConfig THEN "login" ELSE "idle"
    /\ UNCHANGED << configured, db, storedToken, tokenFetchedAt, now, scans,
                    startPc, calls, histResp, statusResp, variant,
                    lastWrite >>

\* the login exchange of the periodic run returns
TimerAuthReturn(o) ==
    /\ timerPc = "login"
    /\ AuthSettle(o)
    /\ lastWrite' = WrittenPair(o)
    /\ timerPc' = "idle"
    /\ UNCHANGED << configured, db, now, scans, startPc, nextFire, calls,
                    histResp, statusResp, variant >>

\* time passes
Tick ==
    /\ now < MaxTicks * TickMs
    /\ now' = now + TickMs
    /\ UNCHANGED << configured, db, storedToken, tokenFetchedAt, scans,
                    startPc, nextFire, timerPc, calls, histResp, statusResp, variant,
                    lastWrite >>

\* ------------------------------------------------------------------ spec
Variants == {"part_000", "server.js"}

InitCommon ==
    /\ configured \in BOOLEAN
    /\ db \in BOOLEAN
    /\ storedToken = Null
    /\ tokenFetchedAt = Null
    /\ now = 0
    /\ scans = << >>
    /\ startPc = "boot"
    /\ nextFire = 0
    /\ timerPc = "idle"
    /\ calls = [c \in Calls |-> NewCall(c)]
    /\ histResp = NoHist
    /\ statusResp = NoStatus
    /\ lastWrite = << Null, Null >>

\* the variant with persistence
Init == InitCommon /\ variant = "part_000"

\* either variant; server.js has no database code
InitVariants ==
    /\ InitCommon
    /\ variant \in Variants
    /\ variant = "server.js" => ~db

\* the steps of one detect request
DetectStepOn(c, outs) ==
    \/ \E size \in Sizes, sb \in BOOLEAN : DetectStart(c, size, sb)
    \/ \E o \in LoginOutcomes, sb \in BOOLEAN : RefreshReturn(c, o, sb)
    \/ \E o \in outs : Attempt1Return(c, o)
    \/ \E ok \in BOOLEAN : Save1Return(c, ok)
    \/ \E o \in LoginOutcomes : ReauthReturn(c, o)
    \/ \E o \in outs : Attempt2Return(c, o)
    \/ \E ok \in BOOLEAN : Save2Return(c, ok)

DetectStep(c) == DetectStepOn(c, DetectOutcomes)

\* startup, the periodic refresh and the clock
Background ==
    \/ StartListen
    \/ \E ok \in BOOLEAN : InitDbReturn(ok)
    \/ \E o \in LoginOutcomes : StartAuthReturn(o)
    \/ TimerFire
    \/ \E o \in LoginOutcomes : TimerAuthReturn(o)
    \/ Tick

\* concurrent detect requests with the background activity
Next ==
    \/ \E c \in Calls : DetectStep(c)
    \/ Background

Spec == Init /\ [][Next]_vars

\* history queries around one detect request, with the background activity
NextHistory ==
    \/ DetectStep(1)
    \/ \E ok \in BOOLEAN : GetHistory(ok)
    \/ Background

SpecHistory == Init /\ [][NextHistory]_vars

\* one detect request with the background activity, in either variant
NextOne ==
    \/ DetectStep(1)
    \/ Background

SpecVariants == InitVariants /\ [][NextOne]_vars

\* one detect request whose upstream answers carry any of the payload shapes
NextPayloads ==
    \/ DetectStepOn(1, PayloadOutcomes)
    \/ Background

SpecPayloads == Init /\ [][NextPayloads]_vars

\* an awaited call of request c returns or fails
ReturnStep(c) ==
    \/ \E o \in LoginOutcomes, sb \in BOOLEAN : RefreshReturn(c, o, sb)
    \/ \E o \in DetectOutcomes : Attempt1Return(c, o)
    \/ \E ok \in BOOLEAN : Save1Return(c, ok)
    \/ \E o \in LoginOutcomes : ReauthReturn(c, o)
    \/ \E o \in DetectOutcomes : Attempt2Return(c, o)
    \/ \E ok \in BOOLEAN : Save2Return(c, ok)

\* one detect request, in either variant, every awaited upstream and
\* database call of which eventually returns or fails
SpecAnswered == InitVariants /\ [][NextOne]_vars /\ WF_vars(ReturnStep(1))

\* status queries around one detect request, with the background activity
NextStatus ==
    \/ DetectStep(1)
    \/ GetStatus
    \/ Background

SpecStatus == Init /\ [][NextStatus]_vars

TypeOK ==
    /\ storedToken \in {Null, Undef, 1, 2}
    /\ \A c \in Calls : calls[c].nresp \in 0..2

\* ================================================================ claims
Done(c) == calls[c].pc = "done"

\* C1: when the first detection attempt is answered 401, exactly one
\* Authenticator invocation and exactly one second detection attempt follow;
\* a second 401 is answered 401; no call issues more than 2 attempts.
C1_OneReauthOneRetry ==
    \A c \in Calls :
        /\ calls[c].attempts <= 2
        /\ (Done(c) /\ calls[c].out1.status = 401) =>
              /\ calls[c].reauths = 1
              /\ calls[c].attempts = 2
              /\ (calls[c].out2.status = 401 => calls[c].resp.status = 401)

\* C2: when the re-authentication after a 401 fails, the call answers 401
\* and does not resubmit the image, also when the store still holds the
\* rejected token.
C2_FailedReauthNoResubmit ==
    \A c \in Calls :
        calls[c].reauthRes = "fail" =>
            /\ calls[c].attempts = 1
            /\ Done(c)
            /\ calls[c].resp.status = 401

\* C3: when the refresh triggered by a stale credential (token present, age
\* at or beyond the TTL) fails, the call
\* answers 401 and sends nothing upstream; no detection attempt is issued
\* with a token whose age is at or beyond the TTL.
C3_StaleRefreshFailsFast ==
    \A c \in Calls :
        /\ (calls[c].credAtStart = "aged" /\ calls[c].refreshRes = "fail") =>
              /\ calls[c].attempts = 0
              /\ Done(c)
              /\ calls[c].resp.status = 401
        /\ ~calls[c].stale1

\* C4: saveScan is invoked at most once per detect call and never in a call
\* that ends in an error response.
C4_SaveOnlyOnSuccess ==
    \A c \in Calls :
        /\ calls[c].saves <= 1
        /\ (Done(c) /\ calls[c].saves >= 1) => calls[c].resp.status = 200

\* C5: whenever upstream answered 2xx the client receives the upstream
\* payload with a success status, whether or not the INSERT succeeded, and a
\* failed INSERT triggers no re-authentication and no retry.
C5_SaveFailureAbsorbed ==
    \A c \in Calls :
        /\ (Done(c) /\ calls[c].out1.status = 200) =>
              calls[c].resp = [status |-> 200, json |-> TRUE, error |-> "",
                               data |-> calls[c].out1.data]
        /\ (Done(c) /\ calls[c].out2.status = 200) =>
              calls[c].resp = [status |-> 200, json |-> TRUE, error |-> "",
                               data |-> calls[c].out2.data]
        /\ calls[c].saveRes = "fail" =>
              (calls[c].out1.status = 200 => calls[c].reauths = 0 /\ calls[c].attempts = 1)

\* the credential was stale when the request reached the handler
StaleAtStart(c) == calls[c].credAtStart \in {"absent", "aged"}

\* a request that has arrived without an image file
NoFileCall(c) == calls[c].pc # "idle" /\ calls[c].size = 0

\* C6 as stated: a request without an image file is always answered 400
\* "No image file provided." and causes no login exchange and no detection
\* call, whatever the state of the Credential Store.
C6_NoFileAlways400 ==
    \A c \in Calls :
        NoFileCall(c) =>
            /\ calls[c].logins = 0
            /\ calls[c].attempts = 0
            /\ Done(c) => calls[c].resp = [status |-> 400, json |-> TRUE,
                                           error |-> "No image file provided.", data |-> NoData]

\* C6 as amended: a request without an image file never causes a detection
\* call; it is answered 400 "No image file provided." when the store holds a
\* token after the refresh step and 401 "Not authenticated..." otherwise; a
\* login exchange precedes the answer exactly when the credential is stale
\* on arrival and the credentials are configured.
C6_NoFileAfterCredentialCheck ==
    \A c \in Calls :
        NoFileCall(c) =>
            /\ calls[c].attempts = 0
            /\ calls[c].saves = 0
            /\ calls[c].logins = (IF StaleAtStart(c) /\ configured THEN 1 ELSE 0)
            /\ Done(c) =>
                 /\ calls[c].resp.json
                 /\ calls[c].resp.status = (IF calls[c].credAfterRefresh = "yes" THEN 400 ELSE 401)
                 /\ calls[c].resp.error =
                        (IF calls[c].credAfterRefresh = "yes" THEN "No image file provided."
                         ELSE MsgNotAuthenticated)
                 /\ (calls[c].credAtStart = "fresh" => calls[c].resp.status = 400)

\* a request without a file, stale credential on arrival, refreshed, then 400
C6_Witness ==
    \E c \in Calls :
        /\ NoFileCall(c) /\ Done(c)
        /\ StaleAtStart(c) /\ calls[c].logins = 1
        /\ calls[c].resp.status = 400

\* C7: an upload larger than 32 MiB is answered 400 with a JSON body
\* {error: message} before any upstream call.
C7_OversizeAnswered400 ==
    \A c \in Calls :
        (calls[c].pc # "idle" /\ calls[c].size > 32 * 1024 * 1024) =>
            /\ calls[c].logins = 0
            /\ calls[c].attempts = 0
            /\ Done(c)
            /\ calls[c].resp.status = 400
            /\ calls[c].resp.json

FirstAttemptOtherFailure(c) ==
    /\ calls[c].out1 # NoOutcome
    /\ ~(calls[c].out1.status >= 200 /\ calls[c].out1.status < 300)
    /\ calls[c].out1.status # 401

\* C9: a first attempt that fails with anything but 401 ends the call with
\* the upstream status (500 when there is none) and the upstream message
\* (the error's own message when there is none); no Authenticator
\* invocation, no second attempt and no history row follow.
C9_OtherFailureNoRetry ==
    \A c \in Calls :
        FirstAttemptOtherFailure(c) =>
            /\ Done(c)
            /\ calls[c].resp.json
            /\ calls[c].resp.status =
                   (IF calls[c].out1.status = 0 THEN 500 ELSE calls[c].out1.status)
            /\ calls[c].resp.error =
                   (IF calls[c].out1.message = "" THEN calls[c].out1.err
                    ELSE calls[c].out1.message)
            /\ calls[c].reauths = 0
            /\ calls[c].attempts = 1
            /\ calls[c].saves = 0
            /\ \A i \in 1..Len(scans) : scans[i].scanId # calls[c].scanId

\* a first attempt that met a network error and was answered 500
C9_Witness ==
    \E c \in Calls :
        /\ Done(c)
        /\ calls[c].out1.status = 0
        /\ calls[c].resp.status = 500
        /\ calls[c].resp.error = "Network Error"

\* C10: with persistence disabled GET /api/history answers 200 with an empty
\* sequence, saveScan is a no-op that raises nothing, and a detect call whose
\* upstream attempt returns 2xx answers the upstream payload with 200.
C10_WorksWithoutPersistence ==
    ~db =>
        /\ histResp.status \in {0, 200}
        /\ histResp.rows = << >>
        /\ scans = << >>
        /\ \A c \in Calls :
              /\ calls[c].pc \notin {"save1", "save2"}
              /\ calls[c].saveRes \in {"none", "noop"}
              /\ (calls[c].out1.status = 200) =>
                    /\ Done(c)
                    /\ calls[c].resp = [status |-> 200, json |-> TRUE, error |-> "",
                                        data |-> calls[c].out1.data]
              /\ (calls[c].out2.status = 200) =>
                    /\ Done(c)
                    /\ calls[c].resp = [status |-> 200, json |-> TRUE, error |-> "",
                                        data |-> calls[c].out2.data]

\* no pool, the history was asked for, and a call succeeded after saveScan
C10_Witness ==
    /\ ~db
    /\ histResp.status = 200
    /\ \E c \in Calls :
          /\ Done(c) /\ calls[c].out1.status = 200
          /\ calls[c].saves = 1 /\ calls[c].resp.status = 200

\* C11: GET /api/status answers authenticated = true exactly when the store
\* holds a usable bearer token and configured = true exactly when both the
\* email and the API key are configured; while the store is as it was when
\* authenticated = true was answered, the credential check of a detect call
\* (!storedToken) passes.
C11_StatusReflectsUsableToken ==
    /\ statusResp.status = 200 =>
          /\ statusResp.authenticated <=>
                (statusResp.held # Null /\ statusResp.held # Undef)
          /\ statusResp.configured <=> configured
    /\ (statusResp.status = 200 /\ statusResp.authenticated
            /\ statusResp.held = storedToken) =>
          (storedToken # Null /\ storedToken # Undef)

\* C12: the retry after a 401 submits a freshly rebuilt multipart payload
\* with the image bytes, filename, sandbox flag and model of the first
\* attempt, under the same scanId, and never a payload object that the first
\* attempt has already consumed.
C12_RetryRebuildsPayload ==
    \A c \in Calls :
        calls[c].sent2 # NoSent =>
            /\ calls[c].sent2.scanId = calls[c].sent1.scanId
            /\ calls[c].sent2.scanId = calls[c].scanId
            /\ calls[c].sent2.image = calls[c].sent1.image
            /\ calls[c].sent2.filename = calls[c].sent1.filename
            /\ calls[c].sent2.sandbox = calls[c].sent1.sandbox
            /\ calls[c].sent2.model = calls[c].sent1.model
            /\ calls[c].sent2.form # calls[c].sent1.form
            /\ ~calls[c].sent2.consumed

\* C13: every step that changes the credential store (token or fetchedAt)
\* leaves a non-empty token in it; a run of authenticate() that obtains no
\* token (missing configuration, network error, non-2xx answer, 2xx answer
\* without access_token and token) changes neither field.
C13_FailedAuthLeavesStore ==
    [][(storedToken' # storedToken \/ tokenFetchedAt' # tokenFetchedAt)
          => (storedToken' # Null /\ storedToken' # Undef)]_vars

\* C14: in every reachable state the store's token and fetchedAt are both
\* absent or both set.
C14_TokenAndFetchedAtTogether ==
    (storedToken = Null \/ storedToken = Undef) <=> (tokenFetchedAt = Null)

\* C15: a detect call that reaches the handler has invoked authenticate()
\* through refreshIfNeeded exactly once if the credential was stale when the
\* call arrived (no token, or now - fetchedAt >= TTL) and not at all if it
\* was fresh, whatever other calls and the periodic run do; while that run
\* is awaited no detection attempt has been sent, and an attempt is sent
\* only after the run has returned.
C15_OneRefreshIffStale ==
    \A c \in Calls :
        calls[c].credAtStart # "none" =>
            /\ calls[c].auths - calls[c].reauths =
                  IF calls[c].credAtStart \in {"absent", "aged"} THEN 1 ELSE 0
            /\ calls[c].pc = "refresh" =>
                  (calls[c].attempts = 0 /\ calls[c].refreshRes = "none")
            /\ (calls[c].attempts >= 1 /\ calls[c].credAtStart \in {"absent", "aged"}) =>
                  calls[c].refreshRes # "none"
            /\ calls[c].credAtStart = "fresh" => calls[c].refreshRes = "none"

\* a call that arrived with now - fetchedAt = TTL, refreshed once and went on
\* to a detection attempt, next to another call that has arrived
C15_Witness ==
    \E c \in Calls, d \in Calls :
        /\ c # d
        /\ calls[d].pc # "idle"
        /\ Done(c)
        /\ calls[c].credAtStart = "aged"
        /\ calls[c].auths - calls[c].reauths = 1
        /\ calls[c].attempts >= 1

\* a run of authenticate() is awaiting its login exchange
RunInFlight ==
    \/ startPc = "auth"
    \/ timerPc = "login"
    \/ \E c \in Calls : calls[c].pc \in {"refresh", "reauth"}

C17_StartupNeverAbandoned ==
    startPc \in {"boot", "initDb", "auth", "scheduled"}

\* the payload of the successful detection call of request c: the retry's if
\* there was one, the first attempt's otherwise
SavedPayload(c) ==
    IF calls[c].out2 # NoOutcome THEN calls[c].out2.data ELSE calls[c].out1.data

\* C18: the row inserted for a successful detection, on the first-attempt
\* path and on the retry path alike, has ai_pct = summary.ai or 0 when
\* missing, human_pct = summary.human or 100 - ai_pct when missing, and
\* width and height as in imageInfo or null (never zero) when missing.
C18_RecordDerivedFromPayload ==
    \A c \in Calls :
        calls[c].saveRes = "ok" =>
            \E i \in 1..Len(scans) :
                LET d == SavedPayload(c)
                    row == scans[i]
                    ai == IF d.ai = Absent THEN 0 ELSE d.ai
                IN /\ row.scanId = calls[c].scanId
                   /\ row.aiPct = ai
                   /\ row.humanPct = IF d.human = Absent THEN 100 - ai ELSE d.human
                   /\ row.width = IF d.width = Absent THEN Null ELSE d.width
                   /\ row.height = IF d.height = Absent THEN Null ELSE d.height
                   /\ row.width # 0 /\ row.height # 0

\* a retry whose payload has neither ai, human nor dimensions was recorded
C18_Witness ==
    \E c \in Calls :
        /\ calls[c].saveRes = "ok"
        /\ calls[c].out2 # NoOutcome
        /\ calls[c].out2.data.ai = Absent
        /\ calls[c].out2.data.human = Absent
        /\ calls[c].out2.data.width = Absent
        /\ calls[c].out2.data.height = Absent
        /\ Len(scans) = 1
        /\ scans[1].humanPct = 100

\* a first attempt whose payload has ai but not human was recorded
C18_WitnessFirstAttempt ==
    \E c \in Calls :
        /\ calls[c].saveRes = "ok"
        /\ calls[c].out2 = NoOutcome
        /\ calls[c].out1.data.ai = 73
        /\ calls[c].out1.data.human = Absent
        /\ Len(scans) = 1
        /\ scans[1].humanPct = 27

\* C19: a detect request is answered exactly once: never twice, its handler
\* has ended exactly when one answer has been sent, and, every awaited
\* upstream and database call returning or failing, a request that has
\* arrived is eventually answered.
C19_AnsweredExactlyOnce ==
    /\ [](\A c \in Calls :
            /\ calls[c].nresp <= 1
            /\ calls[c].pc = "done" <=> calls[c].nresp = 1
            /\ calls[c].nresp = 1 <=> calls[c].resp # NoResp)
    /\ \A c \in Calls : (calls[c].pc # "idle") ~> (calls[c].pc = "done" /\ calls[c].nresp = 1)

\* the longest path: a 401, a re-authentication, a retry, and one answer
C19_Witness ==
    \E c \in Calls :
        /\ calls[c].pc = "done"
        /\ calls[c].reauths = 1
        /\ calls[c].attempts = 2
        /\ calls[c].out2 # NoOutcome
        /\ calls[c].nresp = 1

====
